---- MODULE Spec2Model ----
(***************************************************************************)
(* ExpenseTracker (src/main.py): the expenses table of expense.db and the  *)
(* five tools that read and write it: add_expense, list_expenses,          *)
(* summarize, update and delete.                                           *)
(*                                                                         *)
(* A row of the table is a record [id, date, amount, category,             *)
(* subcategory, note].  An Optional[...] parameter is None (the empty      *)
(* tuple) or a one-element tuple holding its value.  Dates are the         *)
(* fixed-width day digits of "2024-01-DD" strings, compared digit by digit *)
(* as SQLite compares TEXT; for such strings the NUMERIC affinity of the   *)
(* column declared "date str" stores the text as given.                    *)
(***************************************************************************)
EXTENDS Integers, Sequences, FiniteSets, TLC

\* Cap on the AUTOINCREMENT counter: add_expense is explored up to this id.
MaxId == 2

None == <<>>

Some(v) == <<v>>

Opt(S) == {None} \cup {Some(v) : v \in S}

\* "2024-01-05", "2024-01-10", "2024-01-20"
Dates == {<<0, 5>>, <<1, 0>>, <<2, 0>>}

Categories == {"food", "transport"}

\* The add_expense calls explored: <<date, amount, category, subcategory, note>>.
AddInputs ==
    { << <<1, 0>>, 2, "food", "lunch", "cash" >>,
      << <<0, 5>>, 1, "food", "lunch", "cash" >>,
      << <<1, 0>>, 1, "transport", "lunch", "cash" >>,
      << <<1, 0>>, 2, "food", "", "" >>,
      << <<2, 0>>, 2, "food", "lunch", "cash" >> }

\* The update calls explored: every pattern of supplied and absent fields.
UpdateArgs ==
    [cid : {1, 2},
     date : Opt({<<1, 0>>}), amount : Opt({2}), category : Opt({"food"}),
     subcategory : Opt({"lunch"}), note : Opt({"cash"})]

\* The delete calls explored: every pattern of supplied and absent criteria.
DeleteArgs ==
    [id : Opt({2}),
     date : Opt({<<1, 0>>}), category : Opt({"food"}),
     subcategory : Opt({"lunch"}), amount : Opt({2}), note : Opt({"cash"}),
     start_date : Opt({<<0, 5>>, <<1, 0>>}), end_date : Opt({<<1, 0>>})]

\* Callers whose update may be in flight at the same time.
Callers == {1, 2}

\* db        the rows of the expenses table
\* seq       sqlite_sequence: the largest rowid the table has ever held
\* assigned  the ids add_expense has returned so far
\* op, args, ret  the tool call being answered, its arguments and its result
\* inflight  per caller, its update between the commit of the UPDATE
\*           statement and the SELECT that re-reads the row
VARIABLES db, seq, assigned, op, args, ret, inflight

vars == <<db, seq, assigned, op, args, ret, inflight>>

----------------------------------------------------------------------------
\* SQLite's TEXT comparison of two strings of equal length.
RECURSIVE LexLeq(_, _)
LexLeq(a, b) ==
    IF a = <<>> THEN TRUE
    ELSE IF Head(a) < Head(b) THEN TRUE
    ELSE IF Head(a) > Head(b) THEN FALSE
    ELSE LexLeq(Tail(a), Tail(b))

\* "date BETWEEN ? AND ?"
Between(d, lo, hi) == LexLeq(lo, d) /\ LexLeq(d, hi)

RECURSIVE SetMax(_)
SetMax(S) ==
    IF S = {} THEN 0
    ELSE LET x == CHOOSE y \in S : TRUE
             m == SetMax(S \ {x})
         IN IF x > m THEN x ELSE m

MaxRowid(rows) == SetMax({r.id : r \in rows})

\* A rowid chosen as for a plain INTEGER PRIMARY KEY: largest rowid in use + 1.
RowidWithoutAutoincrement(rows, s) == MaxRowid(rows) + 1

\* id INTEGER PRIMARY KEY AUTOINCREMENT: one more than the largest rowid the
\* table has ever held (sqlite_sequence), whatever has been deleted since.
NextRowid(rows, s) ==
    (IF s > MaxRowid(rows) THEN s ELSE MaxRowid(rows)) + 1

----------------------------------------------------------------------------
Init ==
    /\ db = {}
    /\ seq = 0
    /\ assigned = {}
    /\ op = "idle"
    /\ args = None
    /\ ret = None
    /\ inflight = [c \in Callers |-> None]

\* The answer has gone back to the client; the server waits for the next call.
respond ==
    /\ op # "idle"
    /\ op' = "idle"
    /\ args' = None
    /\ ret' = None
    /\ UNCHANGED <<db, seq, assigned, inflight>>

add_expense(date, amount, category, subcategory, note) ==
    LET newid == NextRowid(db, seq) IN
    /\ op = "idle"
    /\ newid <= MaxId
    /\ db' = db \cup {[id |-> newid, date |-> date, amount |-> amount,
                       category |-> category, subcategory |-> subcategory,
                       note |-> note]}
    /\ seq' = newid
    /\ assigned' = assigned \cup {newid}
    /\ op' = "add_expense"
    /\ args' = [date |-> date, amount |-> amount, category |-> category,
                subcategory |-> subcategory, note |-> note]
    /\ ret' = [status |-> "ok", id |-> newid]
    /\ UNCHANGED inflight

----------------------------------------------------------------------------
\* The rows in ascending id order ("order by id asc").
RECURSIVE OrderById(_)
OrderById(rows) ==
    IF rows = {} THEN <<>>
    ELSE LET r == CHOOSE x \in rows : \A y \in rows : x.id <= y.id
         IN <<r>> \o OrderById(rows \ {r})

\* SELECT * from expenses where date between ? and ? order by id asc
ListRows(rows, start_date, end_date) ==
    OrderById({r \in rows : Between(r.date, start_date, end_date)})

list_expenses(start_date, end_date) ==
    /\ op = "idle"
    /\ op' = "list_expenses"
    /\ args' = [start_date |-> start_date, end_date |-> end_date]
    /\ ret' = ListRows(db, start_date, end_date)
    /\ UNCHANGED <<db, seq, assigned, inflight>>

RECURSIVE SumAmount(_)
SumAmount(rows) ==
    IF rows = {} THEN 0
    ELSE LET r == CHOOSE x \in rows : TRUE
         IN r.amount + SumAmount(rows \ {r})

\* The WHERE clause of summarize: the date range, and "AND category=?" when
\* the category argument is truthy (a non-empty string).
SummarizeWhere(rows, start_date, end_date, category) ==
    {r \in rows : /\ Between(r.date, start_date, end_date)
                  /\ (category # "" => r.category = category)}

\* select category, sum(amount) as total_amount ... group by category
SummarizeGroups(rows, start_date, end_date, category) ==
    LET sel == SummarizeWhere(rows, start_date, end_date, category)
    IN {[category |-> c,
         total_amount |-> SumAmount({r \in sel : r.category = c})] :
            c \in {r.category : r \in sel}}

\* "order by total_amount desc"
OrderByTotalDesc(groups) ==
    LET n == Cardinality(groups)
    IN {s \in [1..n -> groups] :
           /\ \A i, j \in 1..n : i # j => s[i] # s[j]
           /\ \A i, j \in 1..n : i < j => s[i].total_amount >= s[j].total_amount}

\* "order by total_amount asc": every arrangement of the groups with
\* non-decreasing totals (SQL leaves the order of equal totals open).
OrderByTotal(groups) ==
    LET n == Cardinality(groups)
    IN {s \in [1..n -> groups] :
           /\ \A i, j \in 1..n : i # j => s[i] # s[j]
           /\ \A i, j \in 1..n : i < j => s[i].total_amount <= s[j].total_amount}

summarize(start_date, end_date, category) ==
    /\ op = "idle"
    /\ op' = "summarize"
    /\ args' = [start_date |-> start_date, end_date |-> end_date,
                category |-> category]
    /\ ret' \in OrderByTotal(SummarizeGroups(db, start_date, end_date, category))
    /\ UNCHANGED <<db, seq, assigned, inflight>>

----------------------------------------------------------------------------
UpdateCols == <<"date", "amount", "category", "subcategory", "note">>

\* update_fields and params, built in the order of the five "is not None"
\* tests: the sequence of <<column, value>> pairs of the SET clause.
RECURSIVE SetClauseFrom(_, _)
SetClauseFrom(a, i) ==
    IF i > Len(UpdateCols) THEN <<>>
    ELSE (IF a[UpdateCols[i]] # None
          THEN << <<UpdateCols[i], a[UpdateCols[i]][1]>> >>
          ELSE <<>>) \o SetClauseFrom(a, i + 1)

SetClause(a) == SetClauseFrom(a, 1)

\* A handler that goes on to the UPDATE statement with an empty SET clause.
NeverRejected(sets) == FALSE

\* "if not update_fields"
NoUpdateFields(sets) == sets = <<>>

RECURSIVE ApplySet(_, _)
ApplySet(r, sets) ==
    IF sets = <<>> THEN r
    ELSE ApplySet([r EXCEPT ![Head(sets)[1]] = Head(sets)[2]], Tail(sets))

\* An UPDATE statement that lost its WHERE clause.
ExecUpdateEveryRow(rows, sets, cid) == {ApplySet(r, sets) : r \in rows}

\* UPDATE expenses SET ... WHERE id=?
ExecUpdate(rows, sets, cid) ==
    {IF r.id = cid THEN ApplySet(r, sets) ELSE r : r \in rows}

\* select * from expenses where id=?
SelectById(rows, cid) == OrderById({r \in rows : r.id = cid})

\* A handler that returns the fetched rows whether or not there are any.
UpdateResultAlwaysRows(rows, cid) == [type |-> "list", rows |-> rows]

\* "if rows: ... else: ..."
UpdateResult(rows, cid) ==
    IF rows # <<>> THEN [type |-> "list", rows |-> rows]
    ELSE [type |-> "dict", error |-> <<"No expense found with id", cid>>]

NoFieldsResult == [type |-> "set", elems |-> {"No fields provided to update"}]

\* The whole handler, run with no other caller between its statements.
update(a) ==
    /\ op = "idle"
    /\ op' = "update"
    /\ args' = a
    /\ IF NoUpdateFields(SetClause(a))
       THEN /\ ret' = NoFieldsResult
            /\ db' = db
       ELSE /\ db' = ExecUpdate(db, SetClause(a), a.cid)
            /\ ret' = UpdateResult(SelectById(db', a.cid), a.cid)
    /\ UNCHANGED <<seq, assigned, inflight>>

----------------------------------------------------------------------------
FilterCols == <<"id", "date", "category", "subcategory", "amount", "note">>

CriteriaKeys == {"id", "date", "category", "subcategory", "amount", "note",
                 "start_date", "end_date"}

\* A test that only notices a start_date without an end_date.
StartWithoutEnd(a) == a.start_date # None /\ a.end_date = None

\* "elif start_date is not None or end_date is not None", reached when the
\* two are not both supplied.
HalfRange(a) ==
    /\ ~(a.start_date # None /\ a.end_date # None)
    /\ (a.start_date # None \/ a.end_date # None)

\* "date BETWEEN ? AND ?" with its two parameters, when both bounds are given.
RangeCondition(a) ==
    IF a.start_date # None /\ a.end_date # None
    THEN << <<"between", "date", a.start_date[1], a.end_date[1]>> >>
    ELSE <<>>

\* The "col = ?" conditions with their parameters, in the order of the six
\* "is not None" tests.
RECURSIVE ColumnConditions(_, _)
ColumnConditions(a, i) ==
    IF i > Len(FilterCols) THEN <<>>
    ELSE (IF a[FilterCols[i]] # None
          THEN << <<"eq", FilterCols[i], a[FilterCols[i]][1]>> >>
          ELSE <<>>) \o ColumnConditions(a, i + 1)

Conditions(a) == RangeCondition(a) \o ColumnConditions(a, 1)

\* A handler that runs the DELETE with whatever conditions it has.
AnyConditions(conds) == FALSE

\* "if not conditions"
NoConditions(conds) == conds = <<>>

\* A range that leaves out its upper bound.
HoldsHalfOpen(r, cond) ==
    IF cond[1] = "between"
    THEN LexLeq(cond[3], r[cond[2]]) /\ ~LexLeq(cond[4], r[cond[2]])
    ELSE r[cond[2]] = cond[3]

\* One condition of the WHERE clause on one row.
Holds(r, cond) ==
    IF cond[1] = "between"
    THEN Between(r[cond[2]], cond[3], cond[4])
    ELSE r[cond[2]] = cond[3]

\* " AND ".join(conditions)
Where(r, conds) == \A i \in 1..Len(conds) : Holds(r, conds[i])

\* An echo that leaves out the two range bounds.
CriteriaWithoutRange(a) ==
    [k \in {k \in CriteriaKeys \ {"start_date", "end_date"} : a[k] # None}
        |-> a[k][1]]

\* {k: v for k, v in {...}.items() if v is not None}
Criteria(a) == [k \in {k \in CriteriaKeys : a[k] # None} |-> a[k][1]]

delete(a) ==
    /\ op = "idle"
    /\ op' = "delete"
    /\ args' = a
    /\ IF HalfRange(a)
       THEN /\ ret' = [status |-> "error",
                       message |-> "Both start_date and end_date must be provided for date range"]
            /\ db' = db
       ELSE IF NoConditions(Conditions(a))
       THEN /\ ret' = [status |-> "error",
                       message |-> "At least one filter parameter must be provided"]
            /\ db' = db
       ELSE LET gone == {r \in db : Where(r, Conditions(a))}
                deleted_count == Cardinality(gone)
            IN /\ db' = db \ gone
               /\ ret' = IF deleted_count > 0
                         THEN [status |-> "success",
                               message |-> <<"Successfully deleted", deleted_count, "expense(s)">>,
                               deleted_count |-> deleted_count,
                               criteria |-> Criteria(a)]
                         ELSE [status |-> "warning",
                               message |-> "No expenses found matching the criteria",
                               deleted_count |-> 0]
    /\ UNCHANGED <<seq, assigned, inflight>>

----------------------------------------------------------------------------
\* update as it runs beside other callers: the UPDATE statement and its
\* commit are one step, the SELECT that re-reads the row is a later one.

\* Lines 91-118: build the SET clause, reject an empty one, else UPDATE and
\* commit.  "row" remembers what the statement left under the id.
update_execute(c, a) ==
    /\ inflight[c] = None
    /\ IF NoUpdateFields(SetClause(a))
       THEN /\ op = "idle"
            /\ op' = "update"
            /\ args' = a
            /\ ret' = NoFieldsResult
            /\ UNCHANGED <<db, inflight>>
       ELSE /\ db' = ExecUpdate(db, SetClause(a), a.cid)
            /\ inflight' = [inflight EXCEPT ![c] =
                               Some([args |-> a, row |-> SelectById(db', a.cid)])]
            /\ UNCHANGED <<op, args, ret>>
    /\ UNCHANGED <<seq, assigned>>

\* Lines 120-128: re-read the row and return it, or the not-found result.
update_select(c) ==
    /\ inflight[c] # None
    /\ op = "idle"
    /\ LET a == inflight[c][1].args
       IN /\ op' = "update"
          /\ args' = a
          /\ ret' = UpdateResult(SelectById(db, a.cid), a.cid)
    /\ inflight' = [inflight EXCEPT ![c] = None]
    /\ UNCHANGED <<db, seq, assigned>>

\* The calls explored beside an update in flight.
ConcUpdateArgs ==
    [cid : {1}, date : {None}, amount : Opt({1, 2}), category : {None},
     subcategory : {None}, note : Opt({"cash"})]

ConcDeleteArgs ==
    [id : Opt({1}), date : {None}, category : Opt({"food"}),
     subcategory : {None}, amount : {None}, note : {None},
     start_date : {None}, end_date : {None}]

ConcAddInputs ==
    { << <<1, 0>>, 2, "food", "lunch", "cash" >>,
      << <<1, 0>>, 1, "transport", "", "" >> }

----------------------------------------------------------------------------
Next ==
    \/ \E t \in AddInputs : add_expense(t[1], t[2], t[3], t[4], t[5])
    \/ \E s, e \in Dates : list_expenses(s, e)
    \/ \E s, e \in Dates, c \in {""} \cup Categories : summarize(s, e, c)
    \/ \E a \in UpdateArgs : update(a)
    \/ \E a \in DeleteArgs : delete(a)
    \/ respond

Spec == Init /\ [][Next]_vars

NextConc ==
    \/ \E t \in ConcAddInputs : add_expense(t[1], t[2], t[3], t[4], t[5])
    \/ \E c \in Callers, a \in ConcUpdateArgs : update_execute(c, a)
    \/ \E c \in Callers : update_select(c)
    \/ \E a \in ConcDeleteArgs : delete(a)
    \/ respond

SpecConc == Init /\ [][NextConc]_vars
----------------------------------------------------------------------------
\* Properties of the tools, stated on the step that answers a call (op goes
\* from "idle" to the tool's name; db is the table before the call and db'
\* the table after it) or on the state in which the answer is held.

Answers(tool) == op = "idle" /\ op' = tool

\* C1: every id returned by add_expense is strictly greater than every id an
\* earlier add_expense returned, whatever has been updated or deleted since.
C1_IdsNeverReused ==
    [][Answers("add_expense") => \A i \in assigned : ret'.id > i]_vars

\* An insert answered after the row holding the highest id was deleted.
C1_Witness ==
    /\ op = "add_expense"
    /\ ret.id = 2
    /\ 1 \in assigned
    /\ \A r \in db : r.id # 1

AllAbsent(a, keys) == \A k \in keys : a[k] = None

\* C2: delete with all eight criteria absent answers with the error status
\* of "no filter" and leaves the table as it was.
C2_NoFilterCriteria ==
    [][(Answers("delete") /\ AllAbsent(args', CriteriaKeys)) =>
          /\ ret'.status = "error"
          /\ ret'.message = "At least one filter parameter must be provided"
          /\ db' = db]_vars

C2_Witness ==
    /\ op = "delete"
    /\ AllAbsent(args, CriteriaKeys)
    /\ ret.status = "error"
    /\ Cardinality(db) = 2

ExactlyOneBound(a) == (a.start_date = None) # (a.end_date = None)

\* C3: delete with exactly one of start_date and end_date answers with the
\* error status of "missing range bound" and deletes nothing, whichever
\* bound it is and whatever other criteria come with it.
C3_MissingRangeBound ==
    [][(Answers("delete") /\ ExactlyOneBound(args')) =>
          /\ ret'.status = "error"
          /\ ret'.message = "Both start_date and end_date must be provided for date range"
          /\ db' = db]_vars

\* Only end_date as a bound, beside criteria that match a stored row.
C3_Witness ==
    /\ op = "delete"
    /\ args.start_date = None
    /\ args.end_date # None
    /\ args.category # None
    /\ \E r \in db : r.category = args.category[1]
    /\ ret.status = "error"

UpdateKeys == {"date", "amount", "category", "subcategory", "note"}

\* C4: update with an id and no field answers with the "no fields"
\* rejection and leaves every row as it was.
C4_NoUpdateFields ==
    [][(Answers("update") /\ AllAbsent(args', UpdateKeys)) =>
          /\ ret' = NoFieldsResult
          /\ db' = db]_vars

C4_Witness ==
    /\ op = "update"
    /\ AllAbsent(args, UpdateKeys)
    /\ \E r \in db : r.id = args.cid
    /\ ret.type = "set"

\* C5: update with at least one field and an id no row has answers with a
\* not-found result, which is neither the "no fields" rejection nor a
\* sequence of rows, and leaves the table as it was.
C5_UpdateNotFound ==
    [][(/\ Answers("update")
        /\ ~AllAbsent(args', UpdateKeys)
        /\ \A r \in db : r.id # args'.cid) =>
          /\ ret'.type = "dict"
          /\ "error" \in DOMAIN ret'
          /\ ret' # NoFieldsResult
          /\ ret'.type # "list"
          /\ db' = db]_vars

C5_Witness ==
    /\ op = "update"
    /\ ~AllAbsent(args, UpdateKeys)
    /\ db # {}
    /\ \A r \in db : r.id # args.cid
    /\ ret.type = "dict"

\* The sum of amount over the listed rows of one category.
RECURSIVE ListTotal(_, _)
ListTotal(listed, c) ==
    IF listed = <<>> THEN 0
    ELSE (IF Head(listed).category = c THEN Head(listed).amount ELSE 0)
         + ListTotal(Tail(listed), c)

\* C6: summarize answers with one entry per category that has a row among
\* those list_expenses returns for the same range (of the given category
\* only, when it is not the empty string), each entry's total_amount is the
\* sum of amount over those rows, no other category appears, and the
\* entries are in ascending order of total_amount.
C6_SummarizeMatchesList ==
    op = "summarize" =>
        LET all == ListRows(db, args.start_date, args.end_date)
            listed == SelectSeq(all, LAMBDA r :
                          args.category # "" => r.category = args.category)
            cats == {listed[i].category : i \in 1..Len(listed)}
            n == Len(ret)
        IN /\ n = Cardinality(cats)
           /\ \A c \in cats : \E i \in 1..n :
                 /\ ret[i].category = c
                 /\ ret[i].total_amount = ListTotal(listed, c)
           /\ \A i \in 1..n : ret[i].category \in cats
           /\ \A i, j \in 1..n : i < j => ret[i].total_amount <= ret[j].total_amount

\* Two categories in range, the smaller total first against the alphabet.
C6_Witness ==
    /\ op = "summarize"
    /\ args.category = ""
    /\ Len(ret) = 2
    /\ ret[1].category = "transport"
    /\ ret[1].total_amount < ret[2].total_amount

Accepted(a) == ~ExactlyOneBound(a) /\ ~AllAbsent(a, CriteriaKeys)

ColumnKeys == {"id", "date", "category", "subcategory", "amount", "note"}

\* The row meets every supplied criterion.
Satisfies(r, a) ==
    /\ \A k \in ColumnKeys : a[k] # None => r[k] = a[k][1]
    /\ (a.start_date # None /\ a.end_date # None) =>
          (LexLeq(a.start_date[1], r.date) /\ LexLeq(r.date, a.end_date[1]))

\* C7: an accepted delete removes exactly the rows that meet every supplied
\* criterion and leaves the others as they were; deleted_count is the
\* number removed, with status success when it is positive and status
\* warning with deleted_count 0 when nothing matched.
C7_DeleteExactlyMatching ==
    [][(Answers("delete") /\ Accepted(args')) =>
          LET gone == {r \in db : Satisfies(r, args')}
          IN /\ db' = db \ gone
             /\ ret'.deleted_count = Cardinality(gone)
             /\ ret'.status = IF gone # {} THEN "success" ELSE "warning"]_vars

\* A range with a column criterion that removed a row and kept another.
C7_Witness ==
    /\ op = "delete"
    /\ args.start_date # None
    /\ args.end_date # None
    /\ args.subcategory # None
    /\ ret.status = "success"
    /\ db # {}

\* The echo has exactly the supplied parameters as keys, each with its value.
EchoesSupplied(criteria, a) ==
    /\ DOMAIN criteria = {k \in CriteriaKeys : a[k] # None}
    /\ \A k \in DOMAIN criteria : criteria[k] = a[k][1]

\* C8 as stated: every accepted delete, whether or not a row matched,
\* answers with status, deleted_count and the echo of the supplied criteria.
C8_EchoAlways ==
    (op = "delete" /\ Accepted(args)) =>
        /\ {"status", "deleted_count", "criteria"} \subseteq DOMAIN ret
        /\ EchoesSupplied(ret.criteria, args)

\* C8 as amended: every accepted delete answers with status and
\* deleted_count; when at least one row was removed the answer also holds
\* the echo of exactly the supplied criteria, and when nothing matched it
\* holds no criteria at all.
C8_EchoOnSuccess ==
    (op = "delete" /\ Accepted(args)) =>
        /\ {"status", "deleted_count"} \subseteq DOMAIN ret
        /\ IF ret.deleted_count > 0
           THEN /\ "criteria" \in DOMAIN ret
                /\ EchoesSupplied(ret.criteria, args)
           ELSE "criteria" \notin DOMAIN ret

\* A successful delete by range and category.
C8_Witness ==
    /\ op = "delete"
    /\ ret.status = "success"
    /\ {"start_date", "end_date", "category"} \subseteq DOMAIN ret.criteria

\* C9: update of an existing id with at least one field sets exactly the
\* supplied fields of that row, keeps its id and its other fields, keeps
\* every other row, and answers with the one-element sequence of the row as
\* it is after the change.
C9_UpdateFrame ==
    [][(/\ Answers("update")
        /\ ~AllAbsent(args', UpdateKeys)
        /\ \E r \in db : r.id = args'.cid) =>
          LET old == CHOOSE r \in db : r.id = args'.cid
              new == [k \in DOMAIN old |->
                         IF k \in UpdateKeys /\ args'[k] # None
                         THEN args'[k][1] ELSE old[k]]
          IN /\ db' = (db \ {old}) \cup {new}
             /\ ret' = [type |-> "list", rows |-> <<new>>]]_vars

\* amount supplied and note not: the row keeps its note, another row its amount.
C9_Witness ==
    /\ op = "update"
    /\ ret.type = "list"
    /\ args.amount # None
    /\ args.note = None
    /\ ret.rows[1].amount = 2
    /\ ret.rows[1].note = ""
    /\ \E r \in db : r.id # args.cid /\ r.amount = 1

\* C10: beside other callers, the row update returns is the row its own
\* UPDATE statement left, and it answers not-found only if no row had the id
\* when the UPDATE was applied.
C10_UpdateAtomic ==
    [][\A c \in Callers :
          (inflight[c] # None /\ inflight'[c] = None) =>
              ret' = UpdateResult(inflight[c][1].row, inflight[c][1].args.cid)]_vars
====
